---- MODULE Spec2Model ----
(***************************************************************************)
(* Model of the inventory reconciliation and batch synchronisation code of *)
(* seller.py (Ozon account) and market.py (Yandex.Market FBS and DBS       *)
(* campaigns): catalog pagination, the stock / price reconciler, the price *)
(* normaliser, the batcher and the top-level orchestration with its error  *)
(* handling.                                                               *)
(*                                                                         *)
(* Python strings that the code parses (quantities, prices) are sequences  *)
(* of one-character strings.  Product codes / offer identifiers are opaque *)
(* and are modelled as naturals.  The spreadsheet columns "Код",           *)
(* "Количество", "Цена" are the record fields Kod, Kolichestvo, Tsena.     *)
(***************************************************************************)
EXTENDS Integers, Sequences, FiniteSets, TLC

VARIABLES
    entry,           \* the function that was called (seller.main, market.upload_stocks, ...)
    pc,              \* the call the entry function is about to make, or how it ended
    account,         \* the account / campaign being synchronised
    remote,          \* the catalog the list collaborator serves for `account`: a sequence of pages
    feed,            \* the rows of ostatki.xls on the supplier's site
    watch_remnants,  \* the snapshot held by the entry function
    cursor,          \* get_offer_ids: last_id (seller) / page (market); 0 is ""
    product_list,    \* get_offer_ids: products accumulated so far
    requests,        \* number of get_product_list calls answered in the current sweep
    offer_ids,       \* the list returned by get_offer_ids, mutated by create_stocks
    stocks,          \* the list returned by create_stocks
    prices,          \* the list returned by create_prices
    n,               \* the chunk size passed to the last divide call
    todo,            \* list(divide(...)): batches the for loop has not submitted yet
    stock_calls,     \* batches passed to update_stocks for `account`, in call order
    price_calls,     \* batches passed to update_price for `account`, in call order
    exc,             \* the exception that ended the run, if any
    log,             \* what the except clauses of main printed
    events           \* <<account, function>>: the function was called for the account

vars == <<entry, pc, account, remote, feed, watch_remnants, cursor, product_list,
          requests, offer_ids, stocks, prices, n, todo, stock_calls, price_calls,
          exc, log, events>>

----------------------------------------------------------------------------
(* Bounds of the model *)

MaxSnap == 2
MaxPages == 2
MaxTotal == 2
MaxRequests == 3
BigLen == 1001
MaxLen == 5
MaxN == 3

(* Batch size ceilings written at the call sites of divide *)

SELLER_STOCK_BATCH == 100
SELLER_PRICE_BATCH == 1000
SELLER_MAIN_PRICE_BATCH == 900
MARKET_STOCK_BATCH == 2000
MARKET_PRICE_BATCH == 500

----------------------------------------------------------------------------
(* Python helpers *)

Min(a, b) == IF a < b THEN a ELSE b

Digits == {"0", "1", "2", "3", "4", "5", "6", "7", "8", "9"}

DigitVal(d) ==
    CASE d = "0" -> 0 [] d = "1" -> 1 [] d = "2" -> 2 [] d = "3" -> 3
      [] d = "4" -> 4 [] d = "5" -> 5 [] d = "6" -> 6 [] d = "7" -> 7
      [] d = "8" -> 8 [] d = "9" -> 9

\* int(s) raises ValueError unless s is a decimal literal (over the model's alphabet:
\* digits and . ' , > x a b c).
IsIntLiteral(s) == Len(s) > 0 /\ \A i \in 1..Len(s) : s[i] \in Digits

RECURSIVE py_int(_)
py_int(s) ==
    IF Len(s) = 0 THEN 0
    ELSE 10 * py_int(SubSeq(s, 1, Len(s) - 1)) + DigitVal(s[Len(s)])

\* x in lst
In(x, lst) == \E i \in 1..Len(lst) : lst[i] = x

\* lst.remove(x): removes the first occurrence (x is in lst at every call site)
py_remove(lst, x) ==
    LET k == CHOOSE i \in 1..Len(lst) :
                 lst[i] = x /\ \A j \in 1..(i - 1) : lst[j] # x
    IN  SubSeq(lst, 1, k - 1) \o SubSeq(lst, k + 1, Len(lst))

\* range that stops before a last partial step: range(0, stop - stop % step, step)
py_range_floor(stop, step) == [k \in 1..(stop \div step) |-> (k - 1) * step]

\* list(range(0, stop, step)), step > 0
py_range(stop, step) == [k \in 1..((stop + step - 1) \div step) |-> (k - 1) * step]

\* lst[i:j] for 0 <= i <= j
py_slice(lst, i, j) == SubSeq(lst, i + 1, Min(j, Len(lst)))

\* s.split(".")[0]
BeforeFirstDot(s) ==
    IF \E i \in 1..Len(s) : s[i] = "."
    THEN LET k == CHOOSE i \in 1..Len(s) :
                      s[i] = "." /\ \A j \in 1..(i - 1) : s[j] # "."
         IN  SubSeq(s, 1, k - 1)
    ELSE s

IsDigit(c) == c \in Digits

----------------------------------------------------------------------------
(* seller.py: pure functions *)

price_conversion(price) == SelectSeq(BeforeFirstDot(price), IsDigit)

\* divide with chunks one element too long: lst[i: i + n + 1]
divide_overlapping(lst, size) ==
    LET starts == py_range(Len(lst), size)
    IN  [k \in 1..Len(starts) |-> py_slice(lst, starts[k], starts[k] + size + 1)]

divide(lst, size) ==
    LET starts == py_range(Len(lst), size)
    IN  [k \in 1..Len(starts) |-> py_slice(lst, starts[k], starts[k] + size)]

\* stock_of without the "1" sentinel: "1" decodes to int("1")
stock_of_no_sentinel(count) ==
    IF count = <<">", "1", "0">> THEN 100 ELSE py_int(count)

\* The quantity decoding shared by both create_stocks: ">10" -> 100, "1" -> 0,
\* otherwise int(...).  Only called when CountDecodes(count).
stock_of(count) ==
    IF count = <<">", "1", "0">> THEN 100
    ELSE IF count = <<"1">> THEN 0
    ELSE py_int(count)

CountDecodes(count) ==
    count = <<">", "1", "0">> \/ count = <<"1">> \/ IsIntLiteral(count)

seller_stock_record(offer_id, stock) == [offer_id |-> offer_id, stock |-> stock]

\* The state of a reconciliation loop: the list built so far, the offer_ids list,
\* and the exception that ended the loop ("none" while it runs).
LoopStart(ids) == [out |-> <<>>, offer_ids |-> ids, exc |-> "none"]

\* seller_stocks_body without "offer_ids.remove(...)"
seller_stocks_body_no_remove(watch, s) ==
    IF In(watch.Kod, s.offer_ids)
    THEN IF CountDecodes(watch.Kolichestvo)
         THEN [s EXCEPT !.out = Append(s.out, seller_stock_record(watch.Kod,
                                                   stock_of(watch.Kolichestvo)))]
         ELSE [s EXCEPT !.exc = "ValueError"]
    ELSE s

\* seller.create_stocks, body of "for watch in watch_remnants"
seller_stocks_body(watch, s) ==
    IF In(watch.Kod, s.offer_ids)
    THEN IF CountDecodes(watch.Kolichestvo)
         THEN [out |-> Append(s.out, seller_stock_record(watch.Kod,
                                                         stock_of(watch.Kolichestvo))),
               offer_ids |-> py_remove(s.offer_ids, watch.Kod),
               exc |-> "none"]
         ELSE [s EXCEPT !.exc = "ValueError"]
    ELSE s

\* The iterations lo..hi of that loop, in order, until an exception ends it (the
\* range is walked by halves, first half first, to keep the evaluation shallow).
RECURSIVE seller_stocks_loop(_, _, _, _)
seller_stocks_loop(rows, lo, hi, s) ==
    IF s.exc # "none" \/ lo > hi THEN s
    ELSE IF lo = hi THEN seller_stocks_body(rows[lo], s)
    ELSE seller_stocks_loop(rows, ((lo + hi) \div 2) + 1, hi,
             seller_stocks_loop(rows, lo, (lo + hi) \div 2, s))

\* seller_stocks_rest without the fill-in of remote-only offers
seller_stocks_rest_missing(ids) == <<>>

\* seller.create_stocks, "for offer_id in offer_ids"
seller_stocks_rest(ids) == [i \in 1..Len(ids) |-> seller_stock_record(ids[i], 0)]

\* seller.create_stocks: the returned list, the offer_ids list as the call leaves it,
\* and the exception raised instead of returning, if any.
seller_create_stocks(rows, ids) ==
    LET s == seller_stocks_loop(rows, 1, Len(rows), LoopStart(ids))
    IN  IF s.exc = "none"
        THEN [stocks |-> s.out \o seller_stocks_rest(s.offer_ids),
              offer_ids |-> s.offer_ids, exc |-> "none"]
        ELSE [stocks |-> <<>>, offer_ids |-> s.offer_ids, exc |-> s.exc]

seller_price_record(watch) ==
    [auto_action_enabled |-> "UNKNOWN", currency_code |-> "RUB",
     offer_id |-> watch.Kod, old_price |-> "0",
     price |-> price_conversion(watch.Tsena)]

\* seller.create_prices, body of "for watch in watch_remnants"
seller_prices_body(watch, s) ==
    IF In(watch.Kod, s.offer_ids)
    THEN [s EXCEPT !.out = Append(s.out, seller_price_record(watch))]
    ELSE s

RECURSIVE seller_prices_loop(_, _, _, _)
seller_prices_loop(rows, lo, hi, s) ==
    IF s.exc # "none" \/ lo > hi THEN s
    ELSE IF lo = hi THEN seller_prices_body(rows[lo], s)
    ELSE seller_prices_loop(rows, ((lo + hi) \div 2) + 1, hi,
             seller_prices_loop(rows, lo, (lo + hi) \div 2, s))

seller_create_prices(rows, ids) ==
    LET s == seller_prices_loop(rows, 1, Len(rows), LoopStart(ids))
    IN  [prices |-> s.out, exc |-> s.exc]

----------------------------------------------------------------------------
(* market.py: pure functions *)

\* str(datetime.datetime.utcnow().replace(microsecond=0).isoformat() + "Z")
UtcNow == "utcnow"

market_stock_record(sku, warehouse_id, count) ==
    [sku |-> sku, warehouseId |-> warehouse_id,
     items |-> <<[count |-> count, type |-> "FIT", updatedAt |-> UtcNow]>>]

\* market.create_stocks, body of "for watch in watch_remnants"
market_stocks_body(watch, s, warehouse_id) ==
    IF In(watch.Kod, s.offer_ids)
    THEN IF CountDecodes(watch.Kolichestvo)
         THEN [out |-> Append(s.out, market_stock_record(watch.Kod, warehouse_id,
                                                         stock_of(watch.Kolichestvo))),
               offer_ids |-> py_remove(s.offer_ids, watch.Kod),
               exc |-> "none"]
         ELSE [s EXCEPT !.exc = "ValueError"]
    ELSE s

RECURSIVE market_stocks_loop(_, _, _, _, _)
market_stocks_loop(rows, lo, hi, s, warehouse_id) ==
    IF s.exc # "none" \/ lo > hi THEN s
    ELSE IF lo = hi THEN market_stocks_body(rows[lo], s, warehouse_id)
    ELSE market_stocks_loop(rows, ((lo + hi) \div 2) + 1, hi,
             market_stocks_loop(rows, lo, (lo + hi) \div 2, s, warehouse_id), warehouse_id)

\* market.create_stocks, "for offer_id in offer_ids"
market_stocks_rest(ids, warehouse_id) ==
    [i \in 1..Len(ids) |-> market_stock_record(ids[i], warehouse_id, 0)]

market_create_stocks(rows, ids, warehouse_id) ==
    LET s == market_stocks_loop(rows, 1, Len(rows), LoopStart(ids), warehouse_id)
    IN  IF s.exc = "none"
        THEN [stocks |-> s.out \o market_stocks_rest(s.offer_ids, warehouse_id),
              offer_ids |-> s.offer_ids, exc |-> "none"]
        ELSE [stocks |-> <<>>, offer_ids |-> s.offer_ids, exc |-> s.exc]

market_price_record(watch) ==
    [id |-> watch.Kod,
     price |-> [value |-> py_int(price_conversion(watch.Tsena)), currencyId |-> "RUR"]]

\* market.create_prices, body of "for watch in watch_remnants": int("") raises
market_prices_body(watch, s) ==
    IF In(watch.Kod, s.offer_ids)
    THEN IF IsIntLiteral(price_conversion(watch.Tsena))
         THEN [s EXCEPT !.out = Append(s.out, market_price_record(watch))]
         ELSE [s EXCEPT !.exc = "ValueError"]
    ELSE s

RECURSIVE market_prices_loop(_, _, _, _)
market_prices_loop(rows, lo, hi, s) ==
    IF s.exc # "none" \/ lo > hi THEN s
    ELSE IF lo = hi THEN market_prices_body(rows[lo], s)
    ELSE market_prices_loop(rows, ((lo + hi) \div 2) + 1, hi,
             market_prices_loop(rows, lo, (lo + hi) \div 2, s))

market_create_prices(rows, ids) ==
    LET s == market_prices_loop(rows, 1, Len(rows), LoopStart(ids))
    IN  [prices |-> IF s.exc = "none" THEN s.out ELSE <<>>, exc |-> s.exc]

----------------------------------------------------------------------------
(* Inputs *)

Row(kod, kolichestvo, tsena) == [Kod |-> kod, Kolichestvo |-> kolichestvo, Tsena |-> tsena]

Rows ==
    { Row(1, <<">", "1", "0">>, <<"1", "0", "0", ".", "0", "0">>),
      Row(2, <<"1">>, <<"5", "0", ".", "0", "0">>),
      Row(1, <<"7">>, <<"a", "b", "c">>),
      Row(2, <<"x">>, <<"5", "'", "9", "9", "0", ".", "0", "0">>) }

PageChoices == { <<>>, <<1>>, <<1, 2>>, <<1, 2, 3>> }

SmallFeeds == UNION { [1..k -> Rows] : k \in 0..MaxSnap }
SmallCatalogs == UNION { [1..k -> PageChoices] : k \in 1..MaxPages }

\* A catalog and a feed long enough to need several batches at every ceiling.  The
\* catalog serves the same offers on both pages: seller.main builds its price list
\* from what create_stocks left in offer_ids, which is non-empty for matched codes
\* only when an offer occurs more than once.
BigPage == [i \in 1..BigLen |-> i]
BigCatalog == <<BigPage, BigPage>>
BigFeed == [i \in 1..BigLen |-> Row(i, <<"7">>, <<"1", "0", "0", ".", "0", "0">>)]

Scenarios == (SmallCatalogs \X SmallFeeds) \cup { <<BigCatalog, BigFeed>> }

\* The catalogs the second campaign of market.main may have.
CatalogsLike(catalog) == IF catalog = BigCatalog THEN { BigCatalog } ELSE SmallCatalogs

SellerEntries == { "seller.main", "seller.upload_stocks", "seller.upload_prices" }
MarketEntries == { "market.main", "market.upload_stocks", "market.upload_prices" }
Mains == { "seller.main", "market.main" }
Entries == SellerEntries \cup MarketEntries

TransportErrors == { "ReadTimeout", "ConnectionError", "HTTPError" }

NoExc == [kind |-> "none", at |-> "none", account |-> "none"]

----------------------------------------------------------------------------
(* Remote collaborators *)

RECURSIVE SumLen(_)
SumLen(pages) == IF pages = <<>> THEN 0 ELSE Len(Head(pages)) + SumLen(Tail(pages))

\* The number of offers in the catalog being served.
TrueTotal == SumLen(remote)

\* The total a seller collaborator reports with a page: the size of the catalog with
\* the first page of a sweep; with a later page any total (the catalog may have
\* changed since the sweep began).
TotalChoices == IF requests = 0 THEN { TrueTotal } ELSE (0..MaxTotal) \cup { TrueTotal }

PageAt(c) == IF c < Len(remote) THEN remote[c + 1] ELSE <<>>

\* seller.get_product_list: response_object.get("result") for cursor last_id
seller_get_product_list(last_id, total) ==
    [items |-> [i \in 1..Len(PageAt(last_id)) |-> [offer_id |-> PageAt(last_id)[i]]],
     total |-> total,
     last_id |-> Min(last_id + 1, Len(remote))]

\* market.get_product_list: nextPageToken is empty (0) on the last page
market_get_product_list(page) ==
    [offerMappingEntries |->
         [i \in 1..Len(PageAt(page)) |-> [offer |-> [shopSku |-> PageAt(page)[i]]]],
     paging |-> [nextPageToken |-> IF page + 1 < Len(remote) THEN page + 1 ELSE 0]]

----------------------------------------------------------------------------
(* Control flow of the entry functions *)

IsSeller == entry \in SellerEntries

Warehouse(a) == IF a = "FBS" THEN "WAREHOUSE_FBS_ID" ELSE "WAREHOUSE_DBS_ID"

FirstPc(e) == IF e = "market.main" THEN "download_stock" ELSE "get_offer_ids"

AfterGetOfferIds ==
    CASE entry = "seller.main" -> "download_stock"
      [] entry = "market.main" -> "create_stocks"
      [] entry \in { "seller.upload_stocks", "market.upload_stocks" } -> "create_stocks"
      [] entry \in { "seller.upload_prices", "market.upload_prices" } -> "create_prices"

AfterDownloadStock == IF entry = "seller.main" THEN "create_stocks" ELSE "get_offer_ids"

AfterStocks ==
    CASE entry = "seller.main" -> "create_prices"
      [] entry = "market.main" -> "upload_prices"
      [] OTHER -> "return"

AfterPrices == IF entry = "seller.main" THEN "done" ELSE "return"

StockBatch == IF IsSeller THEN SELLER_STOCK_BATCH ELSE MARKET_STOCK_BATCH

PriceBatch ==
    CASE entry = "seller.main" -> SELLER_MAIN_PRICE_BATCH
      [] entry = "seller.upload_prices" -> SELLER_PRICE_BATCH
      [] OTHER -> MARKET_PRICE_BATCH

\* main wraps its calls in one try block; market.main calls download_stock before it.
Caught == entry \in Mains /\ ~(entry = "market.main" /\ pc = "download_stock")

Handler(kind) ==
    CASE kind = "ReadTimeout" -> "Timeout exceeded"
      [] kind = "ConnectionError" -> "Connection error"
      [] OTHER -> "ERROR_2"

\* An exception of `kind` leaves the current call.
Raise(kind) ==
    /\ exc' = [kind |-> kind, at |-> pc, account |-> account]
    /\ IF Caught
       THEN pc' = "done" /\ log' = Append(log, Handler(kind))
       ELSE pc' = "raised" /\ log' = log

Called(fn) == events \cup { <<account, fn>> }

----------------------------------------------------------------------------
(* Initial states *)

Init ==
    /\ entry \in Entries
    /\ \E sc \in Scenarios : remote = sc[1] /\ feed = sc[2]
    /\ pc = FirstPc(entry)
    /\ account = IF entry \in SellerEntries THEN "OZON" ELSE "FBS"
    /\ watch_remnants = IF entry \in Mains THEN <<>> ELSE feed
    /\ cursor = 0
    /\ product_list = <<>>
    /\ requests = 0
    /\ offer_ids = <<>>
    /\ stocks = <<>>
    /\ prices = <<>>
    /\ n = 0
    /\ todo = <<>>
    /\ stock_calls = <<>>
    /\ price_calls = <<>>
    /\ exc = NoExc
    /\ log = <<>>
    /\ events = {}

----------------------------------------------------------------------------
(* Actions *)

\* One iteration of the while loop of seller.get_offer_ids, with the loop's exit.
seller_get_offer_ids ==
    /\ IsSeller /\ pc = "get_offer_ids" /\ requests < MaxRequests
    /\ \E total \in TotalChoices :
         LET some_prod == seller_get_product_list(cursor, total)
             extended == product_list \o some_prod.items
         IN  /\ product_list' = extended
             /\ cursor' = some_prod.last_id
             /\ IF some_prod.total = Len(extended)
                THEN /\ offer_ids' = [i \in 1..Len(extended) |-> extended[i].offer_id]
                     /\ pc' = AfterGetOfferIds
                ELSE UNCHANGED <<offer_ids, pc>>
    /\ requests' = requests + 1
    /\ events' = Called("get_offer_ids")
    /\ UNCHANGED <<entry, account, remote, feed, watch_remnants, stocks, prices, n,
                   todo, stock_calls, price_calls, exc, log>>

\* One iteration of the while loop of market.get_offer_ids, with the loop's exit.
market_get_offer_ids ==
    /\ ~IsSeller /\ pc = "get_offer_ids" /\ requests < MaxRequests
    /\ LET some_prod == market_get_product_list(cursor)
           extended == product_list \o some_prod.offerMappingEntries
           page == some_prod.paging.nextPageToken
       IN  /\ product_list' = extended
           /\ cursor' = page
           /\ IF page = 0
              THEN /\ offer_ids' = [i \in 1..Len(extended) |-> extended[i].offer.shopSku]
                   /\ pc' = AfterGetOfferIds
              ELSE UNCHANGED <<offer_ids, pc>>
    /\ requests' = requests + 1
    /\ events' = Called("get_offer_ids")
    /\ UNCHANGED <<entry, account, remote, feed, watch_remnants, stocks, prices, n,
                   todo, stock_calls, price_calls, exc, log>>

download_stock ==
    /\ pc = "download_stock"
    /\ watch_remnants' = feed
    /\ pc' = AfterDownloadStock
    /\ events' = Called("download_stock")
    /\ UNCHANGED <<entry, account, remote, feed, cursor, product_list, requests,
                   offer_ids, stocks, prices, n, todo, stock_calls, price_calls, exc, log>>

\* stocks = create_stocks(...) and list(divide(stocks, ...)) of the for statement.
create_stocks ==
    /\ pc = "create_stocks"
    /\ LET r == IF IsSeller
                THEN seller_create_stocks(watch_remnants, offer_ids)
                ELSE market_create_stocks(watch_remnants, offer_ids, Warehouse(account))
           batches == divide(r.stocks, StockBatch)
       IN  /\ offer_ids' = r.offer_ids
           /\ IF r.exc = "none"
              THEN /\ stocks' = r.stocks
                   /\ n' = StockBatch
                   /\ todo' = batches
                   /\ pc' = IF batches = <<>> THEN AfterStocks ELSE "update_stocks"
                   /\ UNCHANGED <<exc, log>>
              ELSE /\ Raise(r.exc)
                   /\ UNCHANGED <<stocks, n, todo>>
    /\ events' = Called("create_stocks")
    /\ UNCHANGED <<entry, account, remote, feed, watch_remnants, cursor, product_list,
                   requests, prices, stock_calls, price_calls>>

\* One iteration of "for some_stock in ...: update_stocks(some_stock, ...)".
update_stocks ==
    /\ pc = "update_stocks"
    /\ stock_calls' = Append(stock_calls, Head(todo))
    /\ todo' = Tail(todo)
    /\ pc' = IF Tail(todo) = <<>> THEN AfterStocks ELSE "update_stocks"
    /\ events' = Called("update_stocks")
    /\ UNCHANGED <<entry, account, remote, feed, watch_remnants, cursor, product_list,
                   requests, offer_ids, stocks, prices, n, price_calls, exc, log>>

\* prices = create_prices(...) and list(divide(prices, ...)) of the for statement.
create_prices ==
    /\ pc = "create_prices"
    /\ LET r == IF IsSeller
                THEN seller_create_prices(watch_remnants, offer_ids)
                ELSE market_create_prices(watch_remnants, offer_ids)
           batches == divide(r.prices, PriceBatch)
       IN  IF r.exc = "none"
           THEN /\ prices' = r.prices
                /\ n' = PriceBatch
                /\ todo' = batches
                /\ pc' = IF batches = <<>> THEN AfterPrices ELSE "update_price"
                /\ UNCHANGED <<exc, log>>
           ELSE /\ Raise(r.exc)
                /\ UNCHANGED <<prices, n, todo>>
    /\ events' = Called("create_prices")
    /\ UNCHANGED <<entry, account, remote, feed, watch_remnants, cursor, product_list,
                   requests, offer_ids, stocks, stock_calls, price_calls>>

\* One iteration of "for some_price in ...: update_price(some_price, ...)".
update_price ==
    /\ pc = "update_price"
    /\ price_calls' = Append(price_calls, Head(todo))
    /\ todo' = Tail(todo)
    /\ pc' = IF Tail(todo) = <<>> THEN AfterPrices ELSE "update_price"
    /\ events' = Called("update_price")
    /\ UNCHANGED <<entry, account, remote, feed, watch_remnants, cursor, product_list,
                   requests, offer_ids, stocks, prices, n, stock_calls, exc, log>>

\* market.main calls the coroutine function upload_prices without awaiting it: a
\* coroutine object is created and dropped, its body never runs.  After the FBS
\* campaign main goes on with the DBS campaign, after the DBS campaign it returns.
upload_prices_not_awaited ==
    /\ entry = "market.main" /\ pc = "upload_prices"
    /\ events' = Called("upload_prices")
    /\ IF account = "FBS"
       THEN /\ account' = "DBS"
            /\ pc' = "get_offer_ids"
            /\ remote' \in CatalogsLike(remote)
            /\ cursor' = 0
            /\ product_list' = <<>>
            /\ requests' = 0
            /\ stock_calls' = <<>>
            /\ price_calls' = <<>>
       ELSE /\ pc' = "done"
            /\ UNCHANGED <<account, remote, cursor, product_list, requests,
                           stock_calls, price_calls>>
    /\ UNCHANGED <<entry, feed, watch_remnants, offer_ids, stocks, prices, n, todo,
                   exc, log>>

\* A call to a remote collaborator raises (timeout, connection failure, non-2xx).
\* A raising update_stocks / update_price has been called with the batch the for
\* statement took from the list.
transport_error ==
    /\ pc \in { "get_offer_ids", "download_stock", "update_stocks", "update_price" }
    /\ pc = "get_offer_ids" => requests < MaxRequests
    /\ \E kind \in TransportErrors : Raise(kind)
    /\ events' = Called(pc)
    /\ stock_calls' = IF pc = "update_stocks"
                      THEN Append(stock_calls, Head(todo)) ELSE stock_calls
    /\ price_calls' = IF pc = "update_price"
                      THEN Append(price_calls, Head(todo)) ELSE price_calls
    /\ todo' = IF pc \in { "update_stocks", "update_price" } THEN Tail(todo) ELSE todo
    /\ UNCHANGED <<entry, account, remote, feed, watch_remnants, cursor, product_list,
                   requests, offer_ids, stocks, prices, n>>

Next ==
    \/ seller_get_offer_ids
    \/ market_get_offer_ids
    \/ download_stock
    \/ create_stocks
    \/ update_stocks
    \/ create_prices
    \/ update_price
    \/ upload_prices_not_awaited
    \/ transport_error

Spec == Init /\ [][Next]_vars

----------------------------------------------------------------------------
(* The batcher on its own: divide applied to any short list and chunk size *)

DivideItems == { 1, 2 }

InitDivide ==
    /\ entry = "divide"
    /\ pc = "divide"
    /\ stocks \in UNION { [1..k -> DivideItems] : k \in 0..MaxLen }
    /\ n \in 1..MaxN
    /\ account = "none"
    /\ remote = <<>>
    /\ feed = <<>>
    /\ watch_remnants = <<>>
    /\ cursor = 0
    /\ product_list = <<>>
    /\ requests = 0
    /\ offer_ids = <<>>
    /\ prices = <<>>
    /\ todo = <<>>
    /\ stock_calls = <<>>
    /\ price_calls = <<>>
    /\ exc = NoExc
    /\ log = <<>>
    /\ events = {}

\* todo = list(divide(stocks, n))
divide_call ==
    /\ entry = "divide" /\ pc = "divide"
    /\ todo' = divide(stocks, n)
    /\ pc' = "return"
    /\ UNCHANGED <<entry, account, remote, feed, watch_remnants, cursor, product_list,
                   requests, offer_ids, stocks, prices, n, stock_calls, price_calls,
                   exc, log, events>>

NextDivide == divide_call

SpecDivide == InitDivide /\ [][NextDivide]_vars

----------------------------------------------------------------------------
(* Vocabulary of the properties *)

RECURSIVE Flatten(_)
Flatten(batches) ==
    IF batches = <<>> THEN <<>> ELSE Head(batches) \o Flatten(Tail(batches))

Range(seq) == { seq[i] : i \in 1..Len(seq) }

NoRepeat(seq) == Cardinality(Range(seq)) = Len(seq)

\* The offer identifier a product / stock record / price record carries.
ProductId(p) == IF "offer_id" \in DOMAIN p THEN p.offer_id ELSE p.offer.shopSku
StockId(r) == IF "offer_id" \in DOMAIN r THEN r.offer_id ELSE r.sku
StockCount(r) == IF "stock" \in DOMAIN r THEN r.stock ELSE r.items[1].count
PriceId(r) == IF "offer_id" \in DOMAIN r THEN r.offer_id ELSE r.id

\* The list get_offer_ids returned for the current account, as it was returned:
\* create_stocks is only ever called with that list, before anything else touched it.
HandedOver == [i \in 1..Len(product_list) |-> ProductId(product_list[i])]

StockIds == [i \in 1..Len(stocks) |-> StockId(stocks[i])]
PriceIds == [i \in 1..Len(prices) |-> PriceId(prices[i])]

\* create_stocks / create_prices was called for the current account and returned.
StocksReturned == <<account, "create_stocks">> \in events /\ exc.at # "create_stocks"
PricesReturned == <<account, "create_prices">> \in events /\ exc.at # "create_prices"

----------------------------------------------------------------------------
(* C1: create_stocks returns as many stock records as the offer-ID list had  *)
(* entries before the call, and every offer ID of that list is in a record.  *)

C1_OneStockRecordPerOfferId ==
    StocksReturned =>
        /\ Len(stocks) = Len(HandedOver)
        /\ Range(HandedOver) \subseteq Range(StockIds)

\* A call that matched a snapshot row (the list was consumed) and filled in a
\* remote-only offer.
C1_Witness ==
    /\ StocksReturned
    /\ offer_ids # <<>>
    /\ Len(offer_ids) < Len(HandedOver)
    /\ \E i \in 1..Len(stocks) : StockCount(stocks[i]) # 0

----------------------------------------------------------------------------
(* C2: no offer_id appears twice across the stock records create_stocks      *)
(* emits, whatever list get_offer_ids handed over (original statement).      *)

C2_NoOfferIdTwice == StocksReturned => NoRepeat(StockIds)

(* C2 as amended: when the list get_offer_ids handed over repeats no offer   *)
(* ID, no offer_id appears twice across the emitted stock records, even if   *)
(* product codes repeat in the snapshot.                                     *)

C2_NoOfferIdTwiceForDistinctOffers ==
    (StocksReturned /\ NoRepeat(HandedOver)) => NoRepeat(StockIds)

\* A call on a duplicate-free list with a snapshot that repeats a matched code.
C2_Witness ==
    /\ StocksReturned
    /\ NoRepeat(HandedOver)
    /\ Len(watch_remnants) >= 2
    /\ watch_remnants[1].Kod = watch_remnants[2].Kod
    /\ In(watch_remnants[1].Kod, HandedOver)

----------------------------------------------------------------------------
(* C3: in an error-free run of main the price records submitted to           *)
(* update_price are exactly one per snapshot record whose code is in the     *)
(* account's remote catalog (and the stock records cover the catalog).       *)

InCatalog(watch) == In(watch.Kod, HandedOver)

MatchedCodes ==
    LET matched == SelectSeq(watch_remnants, InCatalog)
    IN  [i \in 1..Len(matched) |-> matched[i].Kod]

SubmittedStockIds ==
    LET sent == Flatten(stock_calls) IN [i \in 1..Len(sent) |-> StockId(sent[i])]

SubmittedPriceIds ==
    LET sent == Flatten(price_calls) IN [i \in 1..Len(sent) |-> PriceId(sent[i])]

C3_PriceRecordPerMatchedSnapshotRecord ==
    (entry \in Mains /\ pc = "done" /\ exc = NoExc) =>
        /\ Range(SubmittedStockIds) = Range(HandedOver)
        /\ SubmittedPriceIds = MatchedCodes

----------------------------------------------------------------------------
(* C4: create_prices consumes the offer-ID set like create_stocks does, so   *)
(* no offer_id appears in more than one emitted price record.                *)

C4_NoOfferIdInTwoPriceRecords == PricesReturned => NoRepeat(PriceIds)

----------------------------------------------------------------------------
(* C5: within one account run of main a failed stock batch submission does   *)
(* not keep the price update of that account from being attempted.           *)

PriceUpdateAttempted(a) ==
    <<a, "create_prices">> \in events \/ <<a, "update_price">> \in events

C5_PriceUpdateAttemptedAfterStockFailure ==
    (entry \in Mains /\ pc = "done" /\ exc.at = "update_stocks") =>
        PriceUpdateAttempted(exc.account)

----------------------------------------------------------------------------
(* C6: in market.main an error raised while synchronising the FBS account is *)
(* logged and the synchronisation of the DBS account is still started.       *)

C6_NextAccountStartedAfterError ==
    (entry = "market.main" /\ pc = "done" /\ exc.account = "FBS") =>
        /\ log # <<>>
        /\ <<"DBS", "get_offer_ids">> \in events

----------------------------------------------------------------------------
(* C7: the batches passed to update_stocks (update_price), concatenated in   *)
(* call order, are exactly the reconciled list, and no call carries more     *)
(* than the ceiling: seller stock 100, seller price 1000 (900 in             *)
(* seller.main), market stock 2000, market price 500.                        *)

C7_StockCeiling == IF entry \in SellerEntries THEN 100 ELSE 2000

C7_PriceCeiling ==
    CASE entry = "seller.main" -> 900
      [] entry = "seller.upload_prices" -> 1000
      [] OTHER -> 500

StockLoopDone == StocksReturned /\ pc # "update_stocks" /\ exc.at # "update_stocks"
PriceLoopDone == PricesReturned /\ pc # "update_price" /\ exc.at # "update_price"

C7_BatchesCarryTheListInOrder ==
    /\ \A i \in 1..Len(stock_calls) :
           Len(stock_calls[i]) >= 1 /\ Len(stock_calls[i]) <= C7_StockCeiling
    /\ \A i \in 1..Len(price_calls) :
           Len(price_calls[i]) >= 1 /\ Len(price_calls[i]) <= C7_PriceCeiling
    /\ pc = "update_stocks" => Flatten(stock_calls) \o Flatten(todo) = stocks
    /\ pc = "update_price" => Flatten(price_calls) \o Flatten(todo) = prices
    /\ StockLoopDone => Flatten(stock_calls) = stocks
    /\ PriceLoopDone => Flatten(price_calls) = prices

\* A run of seller.main whose stock list and price list both needed several calls.
C7_Witness ==
    /\ StockLoopDone /\ PriceLoopDone
    /\ Len(stock_calls) >= 2
    /\ Len(price_calls) >= 2
    /\ Len(prices) > 900

----------------------------------------------------------------------------
(* C8: for every sequence S and n > 0 the chunks of divide(S, n) concatenate *)
(* to S, every chunk but possibly the last has length n, the last has length *)
(* 1..n, and an empty S yields no chunk.                                     *)

C8_DivideCoversInOrder ==
    (entry = "divide" /\ pc = "return") =>
        /\ Flatten(todo) = stocks
        /\ \A k \in 1..(Len(todo) - 1) : Len(todo[k]) = n
        /\ todo # <<>> => Len(todo[Len(todo)]) \in 1..n
        /\ stocks = <<>> => todo = <<>>

\* A call that produced several full chunks and a shorter last one.
C8_Witness ==
    /\ entry = "divide" /\ pc = "return"
    /\ Len(todo) >= 3
    /\ Len(todo[Len(todo)]) < n

----------------------------------------------------------------------------
(* C9: get_offer_ids stops at the final page of a finite catalog and never   *)
(* before it, also when the reported total differs between responses.       *)

\* The sweep of the current account left its while loop.
SweepEnded ==
    /\ <<account, "get_offer_ids">> \in events
    /\ pc # "get_offer_ids"
    /\ exc.at # "get_offer_ids"

\* seller: all items of the catalog have been returned; market: the page with the
\* empty nextPageToken has been returned.
FinalPageServed ==
    IF IsSeller THEN Len(product_list) = TrueTotal ELSE requests >= Len(remote)

C9_PaginationStopsAtFinalPage ==
    /\ SweepEnded => FinalPageServed
    /\ (pc = "get_offer_ids" /\ requests > 0) => ~FinalPageServed

----------------------------------------------------------------------------
(* C10: a matched snapshot record whose price has no digit before its first  *)
(* "." does not make create_prices fail: the call returns a price list in    *)
(* which that record carries the empty / zero value.                         *)

DigitlessMatchedRows ==
    { k \in 1..Len(watch_remnants) :
        /\ In(watch_remnants[k].Kod, offer_ids)
        /\ price_conversion(watch_remnants[k].Tsena) = <<>> }

PriceIsEmpty(r) == IF "offer_id" \in DOMAIN r THEN r.price = <<>> ELSE r.price.value = 0

C10_DigitlessPriceDoesNotAbort ==
    (<<account, "create_prices">> \in events /\ DigitlessMatchedRows # {}) =>
        /\ exc.at # "create_prices"
        /\ \A k \in DigitlessMatchedRows :
               \E i \in 1..Len(prices) :
                   /\ PriceId(prices[i]) = watch_remnants[k].Kod
                   /\ PriceIsEmpty(prices[i])

----------------------------------------------------------------------------
(* C11: create_stocks returns, in snapshot order, one record per snapshot    *)
(* record whose code is still in the offer-ID list when it is reached, with  *)
(* quantity ">10" -> 100, "1" -> 0, another numeric literal -> its value;    *)
(* then one record with quantity 0 for every offer ID left in the list.  An  *)
(* empty snapshot with k offer IDs gives k zero-quantity stock records, and  *)
(* create_prices gives no price record.                                      *)

\* The quantities the claim names, for the literals the snapshots hold.
C11_Quantity(count) ==
    CASE count = <<">", "1", "0">> -> 100
      [] count = <<"1">> -> 0
      [] count = <<"7">> -> 7
      [] OTHER -> -1

C11_Mult(x, seq) == Cardinality({ i \in 1..Len(seq) : seq[i] = x })

\* Row k finds its code in the list: fewer earlier rows carry that code than the
\* list handed over has entries of it.
C11_Reached(k) ==
    Cardinality({ j \in 1..(k - 1) : watch_remnants[j].Kod = watch_remnants[k].Kod })
        < C11_Mult(watch_remnants[k].Kod, HandedOver)

C11_MatchedRows == SelectSeq([k \in 1..Len(watch_remnants) |-> k], C11_Reached)

\* create_stocks has returned and no batch of its list has been submitted yet.
C11_JustReturned == StocksReturned /\ stock_calls = <<>> /\ exc = NoExc

C11_StocksAreMatchedThenRemaining ==
    /\ C11_JustReturned =>
         LET matched == C11_MatchedRows
             m       == Len(matched)
             handed  == HandedOver
             codes   == [i \in 1..m |-> watch_remnants[matched[i]].Kod]
         IN
         /\ Len(stocks) = m + Len(offer_ids)
         /\ \A i \in 1..m :
                /\ StockId(stocks[i]) = codes[i]
                /\ StockCount(stocks[i])
                       = C11_Quantity(watch_remnants[matched[i]].Kolichestvo)
         /\ \A i \in 1..Len(offer_ids) :
                /\ StockId(stocks[m + i]) = offer_ids[i]
                /\ StockCount(stocks[m + i]) = 0
         /\ \A x \in Range(handed) :
                C11_Mult(x, offer_ids) = C11_Mult(x, handed) - C11_Mult(x, codes)
         /\ watch_remnants = <<>> =>
                /\ Len(stocks) = Len(handed)
                /\ \A i \in 1..Len(stocks) : StockCount(stocks[i]) = 0
    /\ (PricesReturned /\ watch_remnants = <<>>) => prices = <<>>

\* The snapshot [A ">10", B "1"] against the offers A, B, C.
C11_Witness ==
    /\ C11_JustReturned
    /\ Len(watch_remnants) = 2
    /\ watch_remnants[1].Kolichestvo = <<">", "1", "0">>
    /\ watch_remnants[2].Kolichestvo = <<"1">>
    /\ Len(stocks) = 3
    /\ Len(offer_ids) = 1

====
